---- MODULE Spec2Model ----
(***************************************************************************)
(* Model of the EC2 cost-optimisation report (main.py) and of the S3       *)
(* document-summary handler (lambda_function.py).                          *)
(*                                                                         *)
(* Four specifications share the module:                                   *)
(*   SpecSampler  get_instance_metrics applied to a list of datapoints     *)
(*   SpecEngine   get_recommendations applied to an instance, a            *)
(*                utilisation summary and a pricing catalog                *)
(*   Spec         analyze_instances, statement by statement                *)
(*   SpecLambda   lambda_handler on one S3 event                           *)
(***************************************************************************)
EXTENDS Integers, Sequences, FiniteSets, TLC

VARIABLES
    \* ---- get_instance_metrics
    datapoints,     \* response['Datapoints'] of the CloudWatch query
    summary,        \* what get_instance_metrics returned
    \* ---- get_recommendations
    engInstance,    \* the instance passed in
    engAvg,         \* avg_util
    engMax,         \* max_util
    engCatalog,     \* what the pricing catalog answers, per instance type
    engOut,         \* the call's result and the price lookups it made
    \* ---- analyze_instances
    instances,      \* get_all_instances()
    dynamo_logging, \* parameter of analyze_instances
    DYNAMO_TABLE,   \* module configuration: a table name is set
    TOGETHER_API_KEY, \* module configuration: an API key is set
    pc,             \* position in analyze_instances
    idx,            \* index of the instance the loop is at
    results,        \* the rows built so far
    telemetry,      \* history: the telemetry outcome seen for each instance
    recIdx,         \* index of the record the DynamoDB loop is at
    aiSummary,      \* summary text held by ai_summary_to_file
    uploaded,       \* return value of upload_to_s3(file_name, S3_BUCKET)
    effects,        \* history: the export steps performed, in order
    returned,       \* how the call ended
    \* ---- lambda_handler
    key,            \* event['Records'][0]['s3']['object']['key']
    lpc,            \* position in lambda_handler
    summary_filename,
    bucketPuts,     \* keys written with put_object
    response        \* what lambda_handler returned

samplerVars == <<datapoints, summary>>
engineVars == <<engInstance, engAvg, engMax, engCatalog, engOut>>
configVars == <<instances, dynamo_logging, DYNAMO_TABLE, TOGETHER_API_KEY>>
runVars == <<pc, idx, results, telemetry, recIdx, aiSummary, uploaded, effects, returned>>
lambdaVars == <<key, lpc, summary_filename, bucketPuts, response>>
vars == <<samplerVars, engineVars, configVars, runVars, lambdaVars>>

\* an optional value: None, or the one-element sequence of the value
None == <<>>

Some(x) == <<x>>

(***************************************************************************)
(* Bounds of the model.                                                    *)
(***************************************************************************)
\* Python floats are IEEE-754 binary64: 53 significant bits, every result
\* rounded to the nearest representable value, ties to even.  The model keeps
\* that rounding and narrows the significand so the values stay enumerable.
MantissaBits == 5
\* most datapoints in one CloudWatch response
MaxPoints == 3
\* most running instances in the inventory
MaxInstances == 3
\* longest S3 object key, in characters
MaxKeyLen == 5

(***************************************************************************)
(* Floating point.  A float is a natural number of units, Unit units to    *)
(* one percent; the inputs are 0 or at least one percent, so every         *)
(* rounding step (one unit in the last place) is a whole number of units.  *)
(***************************************************************************)
Unit == 2 ^ (MantissaBits - 1)

Pct(n) == n * Unit

RECURSIVE UlpFrom(_, _, _)
UlpFrom(num, den, u) ==
    IF num < den * (2 ^ MantissaBits) * u THEN u ELSE UlpFrom(num, den, 2 * u)

\* nearest integer to num / den, ties to the even one
RoundHalfEven(num, den) ==
    LET q == num \div den
        r == num % den
    IN  IF 2 * r > den \/ (2 * r = den /\ q % 2 = 1) THEN q + 1 ELSE q

\* the float nearest to num / den
RoundToFloat(num, den) ==
    LET u == UlpFrom(num, den, 1)
    IN  RoundHalfEven(num, den * u) * u

FloatAdd(a, b) == RoundToFloat(a + b, 1)

FloatDiv(a, n) == RoundToFloat(a, n)

\* sum(...): starts from 0 and adds the items left to right
RECURSIVE FloatSum(_)
FloatSum(s) ==
    IF s = <<>> THEN 0
    ELSE FloatAdd(FloatSum(SubSeq(s, 1, Len(s) - 1)), s[Len(s)])

RECURSIVE SeqMax(_)
SeqMax(s) ==
    IF Len(s) = 1 THEN s[1]
    ELSE LET m == SeqMax(SubSeq(s, 1, Len(s) - 1))
         IN  IF s[Len(s)] > m THEN s[Len(s)] ELSE m

Averages(dps) == [i \in 1..Len(dps) |-> dps[i].Average]

Maxima(dps) == [i \in 1..Len(dps) |-> dps[i].Maximum]

(***************************************************************************)
(* get_instance_metrics: the reduction of the response's datapoints.       *)
(***************************************************************************)
get_instance_metrics(dps) ==
    IF dps = <<>>
    THEN [avg_util |-> None, max_util |-> None]
    ELSE [avg_util |-> Some(FloatDiv(FloatSum(Averages(dps)), Len(dps))),
          max_util |-> Some(SeqMax(Maxima(dps)))]

\* daily CPU percentages a datapoint may carry
SamplerValues == {Pct(5), Pct(26), Pct(40)}

Datapoint == {dp \in [Average : SamplerValues, Maximum : SamplerValues] :
                dp.Maximum >= dp.Average}

SeqsUpTo(S, n) == UNION {[1..k -> S] : k \in 0..n}

DatapointLists == SeqsUpTo(Datapoint, MaxPoints)

(***************************************************************************)
(* Strings are sequences of one-character strings.                         *)
(***************************************************************************)
StartsWith(s, p) == Len(s) >= Len(p) /\ SubSeq(s, 1, Len(p)) = p

EndsWith(s, p) == Len(s) >= Len(p) /\ SubSeq(s, Len(s) - Len(p) + 1, Len(s)) = p

\* s.split('.')[0]: what precedes the first '.', all of s when it has none
RECURSIVE SplitFirst(_)
SplitFirst(s) ==
    IF s = <<>> \/ s[1] = "." THEN <<>>
    ELSE <<s[1]>> \o SplitFirst(SubSeq(s, 2, Len(s)))

(***************************************************************************)
(* get_instance_type_info: the price the catalog's answer resolves to.     *)
(* An answer is an exception of get_products, an empty PriceList, an entry *)
(* of the wrong shape, an entry without a USD price, or an entry whose USD *)
(* price is a string: empty, or a decimal number (in thousandths of a      *)
(* dollar here).                                                           *)
(***************************************************************************)
UsdPrices == {0, 48, 96}

CatalogAnswers ==
    [outcome : {"ClientError", "EmptyPriceList", "Malformed", "NoUSD", "EmptyString"},
     usd : {0}]
    \cup [outcome : {"USD"}, usd : UsdPrices]

get_instance_type_info(answer) ==
    CASE answer.outcome = "ClientError" -> None        \* except Exception
      [] answer.outcome = "EmptyPriceList" -> None     \* not response['PriceList']
      [] answer.outcome = "Malformed" -> None          \* KeyError, ValueError: except Exception
      [] answer.outcome = "NoUSD" -> None              \* .get('USD', None)
      [] answer.outcome = "EmptyString" -> None        \* usd_price is falsy
      [] answer.outcome = "USD" -> Some(answer.usd)    \* float(usd_price)

\* Python's truth value of a price: None and 0.0 are false
Truthy(price) == price # None /\ price[1] # 0

(***************************************************************************)
(* get_recommendations.                                                    *)
(***************************************************************************)
UnderutilizedThreshold == 40

IdleThreshold == 10

Large == <<"l", "a", "r", "g", "e">>
Medium == <<"m", "e", "d", "i", "u", "m">>
Small == <<"s", "m", "a", "l", "l">>

SizeSuffixes == <<Large, Medium, Small>>

\* the rule-1 test with the boundary included
Rule1AtMost(max_util) == max_util <= Pct(UnderutilizedThreshold)

Rule1Applies(max_util) == max_util < Pct(UnderutilizedThreshold)

\* the rule-2 test with the boundary included
Rule2AtMost(max_util) == max_util <= Pct(IdleThreshold)

Rule2Applies(max_util) == max_util < Pct(IdleThreshold)

Family(current_type) == SplitFirst(current_type)

\* the candidates in the opposite order
PotentialTypesReversed(current_type) ==
    [i \in 1..Len(SizeSuffixes) |->
        Family(current_type) \o <<".">> \o SizeSuffixes[Len(SizeSuffixes) + 1 - i]]

PotentialTypes(current_type) ==
    [i \in 1..Len(SizeSuffixes) |-> Family(current_type) \o <<".">> \o SizeSuffixes[i]]

Underutilized(max_util) == [kind |-> "Underutilized", new_type |-> <<>>, value |-> max_util]

Suggest(new_type, savings) == [kind |-> "Suggest", new_type |-> new_type, value |-> savings]

ConsiderStopping == [kind |-> "ConsiderStopping", new_type |-> <<>>, value |-> 0]

Cheaper(new_price, current_price) ==
    Truthy(new_price) /\ Truthy(current_price) /\ new_price[1] < current_price[1]

\* the loop over potential_types, from candidate i on
RECURSIVE Candidates(_, _, _, _)
Candidates(current_type, current_price, catalog, i) ==
    IF i > Len(SizeSuffixes) THEN [recommendations |-> <<>>, lookups |-> <<>>]
    ELSE LET new_type == PotentialTypes(current_type)[i]
             rest == Candidates(current_type, current_price, catalog, i + 1)
         IN  IF new_type = current_type THEN rest
             ELSE LET new_price == get_instance_type_info(catalog[new_type])
                  IN  [recommendations |->
                          (IF Cheaper(new_price, current_price)
                           THEN <<Suggest(new_type, current_price[1] - new_price[1])>>
                           ELSE <<>>) \o rest.recommendations,
                       lookups |-> <<new_type>> \o rest.lookups]

\* the types a call may ask the catalog about
LookupTypes(current_type) ==
    {current_type} \cup {PotentialTypes(current_type)[i] : i \in 1..Len(SizeSuffixes)}

get_recommendations(instance, avg_util, max_util, catalog) ==
    LET current_type == instance.InstanceType
        rule1 ==
            IF Rule1Applies(max_util)
            THEN LET current_price == get_instance_type_info(catalog[current_type])
                     c == Candidates(current_type, current_price, catalog, 1)
                 IN  [recommendations |-> <<Underutilized(max_util)>> \o c.recommendations,
                      lookups |-> <<current_type>> \o c.lookups]
            ELSE [recommendations |-> <<>>, lookups |-> <<>>]
    IN  [recommendations |->
            rule1.recommendations
            \o (IF Rule2Applies(max_util) THEN <<ConsiderStopping>> ELSE <<>>),
         lookups |-> rule1.lookups]

\* instance types of the engine's inputs: "m5.large", "m5.xlarge", "m5.small",
\* "m5.x.large" (two delimiters) and "t2" (no delimiter)
M5Large == <<"m", "5", ".">> \o Large
M5XLarge == <<"m", "5", ".", "x">> \o Large
M5Small == <<"m", "5", ".">> \o Small
M5XDotLarge == <<"m", "5", ".", "x", ".">> \o Large
T2 == <<"t", "2">>

InstanceTypes == {M5Large, M5XLarge, M5Small, M5XDotLarge, T2}

\* max_util around the two thresholds: 5, 9.5, 10, 38, 40, 60 percent
MaxValues == {Pct(5), Pct(19) \div 2, Pct(10), Pct(38), Pct(40), Pct(60)}

Instance(id, type) == [InstanceId |-> id, InstanceType |-> type]

(***************************************************************************)
(* The initial values of each part; a specification starts the parts it    *)
(* does not exercise here and leaves them unchanged.                       *)
(***************************************************************************)
NotCalled == [called |-> FALSE, avg_util |-> None, max_util |-> None]

NoOutput == [called |-> FALSE, recommendations |-> <<>>, lookups |-> <<>>]

IdleSampler == datapoints = <<>> /\ summary = NotCalled

IdleEngine ==
    /\ engInstance = Instance(1, T2)
    /\ engAvg = 0
    /\ engMax = 0
    /\ engCatalog = [t \in LookupTypes(T2) |-> [outcome |-> "EmptyPriceList", usd |-> 0]]
    /\ engOut = NoOutput

(***************************************************************************)
(* SpecSampler: get_instance_metrics on every list of datapoints.          *)
(***************************************************************************)
GetInstanceMetrics ==
    /\ ~summary.called
    /\ summary' = [called |-> TRUE] @@ get_instance_metrics(datapoints)
    /\ UNCHANGED <<datapoints, engineVars, configVars, runVars, lambdaVars>>

(***************************************************************************)
(* SpecEngine: get_recommendations on every instance type, utilisation     *)
(* and catalog.                                                            *)
(***************************************************************************)
GetRecommendations ==
    /\ ~engOut.called
    /\ engOut' = [called |-> TRUE]
                 @@ get_recommendations(engInstance, engAvg, engMax, engCatalog)
    /\ UNCHANGED <<engInstance, engAvg, engMax, engCatalog,
                   samplerVars, configVars, runVars, lambdaVars>>

(***************************************************************************)
(* analyze_instances.                                                      *)
(***************************************************************************)
\* round(x, 1), in tenths of a percent
Round1(x) == RoundHalfEven(x * 10, Unit)

NoRecommendations == [kind |-> "NoRecommendations", new_type |-> <<>>, value |-> 0]

\* the join alone, without the marker
RenderJoined(recommendations) == recommendations

\* "\n".join(recommendations) if recommendations else "No recommendations":
\* the text, as the sequence of its lines
Render(recommendations) ==
    IF recommendations # <<>> THEN recommendations ELSE <<NoRecommendations>>

Row(instance, avg_util, max_util, recommendations) ==
    [InstanceId |-> instance.InstanceId,
     InstanceType |-> instance.InstanceType,
     AvgCPU |-> Round1(avg_util),
     MaxCPU |-> Round1(max_util),
     Recommendations |-> Render(recommendations),
     created_at |-> FALSE]

\* what the telemetry query of one instance does: it raises, or it answers
QueryError == [error |-> TRUE, Datapoints |-> <<>>]

Answer(dps) == [error |-> FALSE, Datapoints |-> dps]

\* the loop body without its continue: an instance without data gets a row
LoopBodyNoDataRow(rows, instance, outcome, catalog) ==
    IF outcome.error THEN rows
    ELSE LET m == get_instance_metrics(outcome.Datapoints)
         IN  IF m.avg_util = None THEN Append(rows, Row(instance, 0, 0, <<>>))
             ELSE Append(rows,
                         Row(instance, m.avg_util[1], m.max_util[1],
                             get_recommendations(instance, m.avg_util[1], m.max_util[1],
                                                 catalog).recommendations))

\* the body of the loop: the rows after one instance
LoopBody(rows, instance, outcome, catalog) ==
    IF outcome.error THEN rows        \* except Exception
    ELSE LET m == get_instance_metrics(outcome.Datapoints)
         IN  IF m.avg_util = None THEN rows    \* continue
             ELSE Append(rows,
                         Row(instance, m.avg_util[1], m.max_util[1],
                             get_recommendations(instance, m.avg_util[1], m.max_util[1],
                                                 catalog).recommendations))

\* s3.upload_file succeeds, raises botocore's ClientError, or raises another
\* exception (a BotoCoreError such as EndpointConnectionError, boto3's
\* S3UploadFailedError); only ClientError is caught
S3Outcomes == {"ok", "ClientError", "OtherError"}

upload_to_s3(outcome) ==
    CASE outcome = "ok" -> "True"
      [] outcome = "ClientError" -> "False"
      [] OTHER -> "raise"

\* table.put_item succeeds or raises; nothing is caught
PutOutcomes == {"ok", "ClientError"}

write_to_dynamodb(configured, outcome) ==
    IF ~configured THEN "skipped"
    ELSE IF outcome = "ok" THEN "written" ELSE "raise"

\* the completion call: requests.post raises, response.json() raises, the JSON
\* has no "choices", its "choices" has not the expected shape, or it carries
\* the content, which may be blank
CompletionOutcomes ==
    {"ConnectionError", "NotJSON", "NoChoices", "BadChoices", "Text", "Blank"}

summarize_with_together(key_set, outcome) ==
    IF ~key_set THEN "empty"
    ELSE CASE outcome = "ConnectionError" -> "raise"
           [] outcome = "NotJSON" -> "raise"
           [] outcome = "BadChoices" -> "raise"
           [] outcome = "NoChoices" -> "text"      \* str(output)
           [] outcome = "Text" -> "text"
           [] outcome = "Blank" -> "blank"

\* summary.strip() is not empty
Stripped(text) == text = "text"

Running == [how |-> "running", at |-> "none"]

Raise(stage) ==
    /\ returned' = [how |-> "raised", at |-> stage]
    /\ pc' = "done"

\* the inventory of a run: the first instances of a fleet that alternates
\* m5.xlarge and m5.large
RunType(i) == IF i % 2 = 1 THEN M5XLarge ELSE M5Large

Inventories == {[i \in 1..k |-> Instance(i, RunType(i))] : k \in 0..MaxInstances}

Dp(a, m) == [Average |-> Pct(a), Maximum |-> Pct(m)]

TelemetryOutcomes ==
    {QueryError, Answer(<<>>), Answer(<<Dp(5, 5)>>), Answer(<<Dp(26, 38)>>),
     Answer(<<Dp(40, 40)>>)}

\* the catalog of a run lists prices, or lists nothing
ListedAnswer(t) ==
    IF t = M5XLarge THEN [outcome |-> "USD", usd |-> 96]
    ELSE IF EndsWith(t, Large) \/ EndsWith(t, Medium) THEN [outcome |-> "USD", usd |-> 48]
    ELSE [outcome |-> "EmptyPriceList", usd |-> 0]

RunCatalogs(current_type) ==
    {[t \in LookupTypes(current_type) |-> ListedAnswer(t)],
     [t \in LookupTypes(current_type) |-> [outcome |-> "ClientError", usd |-> 0]]}

IdleRun ==
    /\ instances = <<>>
    /\ dynamo_logging = FALSE
    /\ DYNAMO_TABLE = FALSE
    /\ TOGETHER_API_KEY = FALSE
    /\ pc = "done"
    /\ idx = 1
    /\ results = <<>>
    /\ telemetry = <<>>
    /\ recIdx = 1
    /\ aiSummary = "empty"
    /\ uploaded = "unset"
    /\ effects = <<>>
    /\ returned = Running

\* line 131: instances = get_all_instances()
GetAllInstances ==
    /\ pc = "inventory"
    /\ \/ pc' = "loop" /\ UNCHANGED returned
       \/ Raise("get_all_instances")
    /\ UNCHANGED <<idx, results, telemetry, recIdx, aiSummary, uploaded, effects>>
    /\ UNCHANGED <<samplerVars, engineVars, configVars, lambdaVars>>

\* lines 134-152: one iteration of the loop
AnalyzeInstance ==
    /\ pc = "loop"
    /\ idx <= Len(instances)
    /\ \E outcome \in TelemetryOutcomes :
       \E catalog \in RunCatalogs(instances[idx].InstanceType) :
          /\ telemetry' = Append(telemetry, outcome)
          /\ results' = LoopBody(results, instances[idx], outcome, catalog)
    /\ idx' = idx + 1
    /\ UNCHANGED <<pc, recIdx, aiSummary, uploaded, effects, returned>>
    /\ UNCHANGED <<samplerVars, engineVars, configVars, lambdaVars>>

\* lines 153-163: the frame is empty and the call returns None, or the report
\* is written
WriteReport ==
    /\ pc = "loop"
    /\ idx > Len(instances)
    /\ IF results = <<>>
       THEN /\ returned' = [how |-> "None", at |-> "none"]
            /\ pc' = "done"
            /\ UNCHANGED effects
       ELSE /\ effects' = Append(effects, "to_csv")
            /\ pc' = "upload"
            /\ UNCHANGED returned
    /\ UNCHANGED <<idx, results, telemetry, recIdx, aiSummary, uploaded>>
    /\ UNCHANGED <<samplerVars, engineVars, configVars, lambdaVars>>

\* line 164: uploaded = upload_to_s3(file_name, S3_BUCKET)
UploadReport ==
    /\ pc = "upload"
    /\ effects' = Append(effects, "upload_report")
    /\ \E outcome \in S3Outcomes :
          IF upload_to_s3(outcome) = "raise"
          THEN Raise("upload_to_s3") /\ UNCHANGED uploaded
          ELSE /\ uploaded' = upload_to_s3(outcome)
               /\ pc' = "dynamo"
               /\ UNCHANGED returned
    /\ UNCHANGED <<idx, results, telemetry, recIdx, aiSummary>>
    /\ UNCHANGED <<samplerVars, engineVars, configVars, lambdaVars>>

\* lines 165-168: every record is stamped and logged, when logging is on
LogRecords ==
    /\ pc = "dynamo"
    /\ IF dynamo_logging /\ DYNAMO_TABLE /\ recIdx <= Len(results)
       THEN /\ results' = [results EXCEPT ![recIdx].created_at = TRUE]
            /\ effects' = Append(effects, "put_item")
            /\ \E outcome \in PutOutcomes :
                  IF write_to_dynamodb(DYNAMO_TABLE, outcome) = "raise"
                  THEN Raise("write_to_dynamodb") /\ UNCHANGED recIdx
                  ELSE recIdx' = recIdx + 1 /\ UNCHANGED <<pc, returned>>
       ELSE /\ pc' = "summarize"
            /\ UNCHANGED <<results, effects, recIdx, returned>>
    /\ UNCHANGED <<idx, telemetry, aiSummary, uploaded>>
    /\ UNCHANGED <<samplerVars, engineVars, configVars, lambdaVars>>

\* lines 193-195: ai_summary_to_file reads the report and asks for its summary
Summarize ==
    /\ pc = "summarize"
    /\ \E outcome \in CompletionOutcomes :
          /\ effects' = IF TOGETHER_API_KEY THEN Append(effects, "completion") ELSE effects
          /\ IF summarize_with_together(TOGETHER_API_KEY, outcome) = "raise"
             THEN Raise("summarize_with_together") /\ UNCHANGED aiSummary
             ELSE /\ aiSummary' = summarize_with_together(TOGETHER_API_KEY, outcome)
                  /\ pc' = "summary_file"
                  /\ UNCHANGED returned
    /\ UNCHANGED <<idx, results, telemetry, recIdx, uploaded>>
    /\ UNCHANGED <<samplerVars, engineVars, configVars, lambdaVars>>

\* lines 196-199, 211-212: the summary is written to its file, unless it is blank
WriteSummary ==
    /\ pc = "summary_file"
    /\ IF Stripped(aiSummary)
       THEN effects' = Append(effects, "write_summary") /\ pc' = "summary_upload"
       ELSE pc' = "return" /\ UNCHANGED effects
    /\ UNCHANGED <<idx, results, telemetry, recIdx, aiSummary, uploaded, returned>>
    /\ UNCHANGED <<samplerVars, engineVars, configVars, lambdaVars>>

\* line 203: upload_to_s3(summary_path, S3_BUCKET)
UploadSummary ==
    /\ pc = "summary_upload"
    /\ effects' = Append(effects, "upload_summary")
    /\ \E outcome \in S3Outcomes :
          IF upload_to_s3(outcome) = "raise"
          THEN Raise("upload_to_s3")
          ELSE pc' = "summary_log" /\ UNCHANGED returned
    /\ UNCHANGED <<idx, results, telemetry, recIdx, aiSummary, uploaded>>
    /\ UNCHANGED <<samplerVars, engineVars, configVars, lambdaVars>>

\* lines 205-210: the summary is logged, when a table is configured
LogSummary ==
    /\ pc = "summary_log"
    /\ IF DYNAMO_TABLE
       THEN /\ effects' = Append(effects, "put_item")
            /\ \E outcome \in PutOutcomes :
                  IF write_to_dynamodb(DYNAMO_TABLE, outcome) = "raise"
                  THEN Raise("write_to_dynamodb")
                  ELSE pc' = "return" /\ UNCHANGED returned
       ELSE pc' = "return" /\ UNCHANGED <<effects, returned>>
    /\ UNCHANGED <<idx, results, telemetry, recIdx, aiSummary, uploaded>>
    /\ UNCHANGED <<samplerVars, engineVars, configVars, lambdaVars>>

\* line 171: return {"file": file_name, "s3": uploaded, "items": results}
Return ==
    /\ pc = "return"
    /\ returned' = [how |-> "record", at |-> "none"]
    /\ pc' = "done"
    /\ UNCHANGED <<idx, results, telemetry, recIdx, aiSummary, uploaded, effects>>
    /\ UNCHANGED <<samplerVars, engineVars, configVars, lambdaVars>>

(***************************************************************************)
(* lambda_handler.                                                         *)
(***************************************************************************)
\* str.lower(), on the characters of the keys
LowerChar(c) == IF c = "P" THEN "p" ELSE c

Lower(s) == [i \in 1..Len(s) |-> LowerChar(s[i])]

\* str.replace(old, new): every occurrence of old, left to right, without overlap
RECURSIVE Replace(_, _, _)
Replace(s, old, new) ==
    IF Len(s) < Len(old) THEN s
    ELSE IF StartsWith(s, old)
         THEN new \o Replace(SubSeq(s, Len(old) + 1, Len(s)), old, new)
         ELSE <<s[1]>> \o Replace(SubSeq(s, 2, Len(s)), old, new)

DotPptx == <<".", "p", "p", "t", "x">>
DotPdf == <<".", "p", "d", "f">>
SummaryTxt == <<"_", "s", "u", "m", "m", "a", "r", "y", ".", "t", "x", "t">>

\* the characters of an object key
KeyChars == {".", "p", "d", "f", "t", "x", "P"}

Keys == SeqsUpTo(KeyChars, MaxKeyLen)

IsPptx(k) == EndsWith(Lower(k), DotPptx)

IsPdf(k) == EndsWith(Lower(k), DotPdf)

SummaryFilename(k) ==
    IF IsPptx(k) THEN Replace(k, DotPptx, SummaryTxt)
    ELSE Replace(k, DotPdf, SummaryTxt)

NoResponse == [statusCode |-> 0, raised |-> FALSE]

IdleLambda ==
    /\ key = <<>>
    /\ lpc = "done"
    /\ summary_filename = <<>>
    /\ bucketPuts = {}
    /\ response = NoResponse

LambdaRaise ==
    /\ response' = [statusCode |-> 0, raised |-> TRUE]
    /\ lpc' = "done"

\* line 45: s3.download_file(bucket, key, filename)
Download ==
    /\ lpc = "download"
    /\ \/ lpc' = "extract" /\ UNCHANGED response
       \/ LambdaRaise
    /\ UNCHANGED <<key, summary_filename, bucketPuts>>
    /\ UNCHANGED <<samplerVars, engineVars, configVars, runVars>>

\* lines 47-54: the text is extracted and the summary's key chosen, or the
\* type is refused
Extract ==
    /\ lpc = "extract"
    /\ IF IsPptx(key) \/ IsPdf(key)
       THEN \/ /\ summary_filename' = SummaryFilename(key)
               /\ lpc' = "summarize"
               /\ UNCHANGED response
            \/ LambdaRaise /\ UNCHANGED summary_filename   \* the extractor raises
       ELSE /\ response' = [statusCode |-> 400, raised |-> FALSE]
            /\ lpc' = "done"
            /\ UNCHANGED summary_filename
    /\ UNCHANGED <<key, bucketPuts>>
    /\ UNCHANGED <<samplerVars, engineVars, configVars, runVars>>

\* line 56: summary = summarize_with_together(text); the request may raise
LambdaSummarize ==
    /\ lpc = "summarize"
    /\ \/ lpc' = "put" /\ UNCHANGED response
       \/ LambdaRaise
    /\ UNCHANGED <<key, summary_filename, bucketPuts>>
    /\ UNCHANGED <<samplerVars, engineVars, configVars, runVars>>

\* lines 57-58: s3.put_object(Bucket=bucket, Key=summary_filename, ...)
PutObject ==
    /\ lpc = "put"
    /\ \/ /\ bucketPuts' = bucketPuts \cup {summary_filename}
          /\ response' = [statusCode |-> 200, raised |-> FALSE]
          /\ lpc' = "done"
       \/ LambdaRaise /\ UNCHANGED bucketPuts
    /\ UNCHANGED <<key, summary_filename>>
    /\ UNCHANGED <<samplerVars, engineVars, configVars, runVars>>

(***************************************************************************)
(* The specifications.                                                     *)
(***************************************************************************)
InitSampler ==
    /\ datapoints \in DatapointLists
    /\ summary = NotCalled
    /\ IdleEngine /\ IdleRun /\ IdleLambda

NextSampler == GetInstanceMetrics

SpecSampler == InitSampler /\ [][NextSampler]_vars

InitEngine ==
    /\ engInstance \in {Instance(1, t) : t \in InstanceTypes}
    /\ engAvg = Pct(5)
    /\ engMax \in MaxValues
    /\ engCatalog \in [LookupTypes(engInstance.InstanceType) -> CatalogAnswers]
    /\ engOut = NoOutput
    /\ IdleSampler /\ IdleRun /\ IdleLambda

NextEngine == GetRecommendations

SpecEngine == InitEngine /\ [][NextEngine]_vars

Init ==
    /\ instances \in Inventories
    /\ dynamo_logging \in BOOLEAN
    /\ DYNAMO_TABLE \in BOOLEAN
    /\ TOGETHER_API_KEY \in BOOLEAN
    /\ pc = "inventory"
    /\ idx = 1
    /\ results = <<>>
    /\ telemetry = <<>>
    /\ recIdx = 1
    /\ aiSummary = "empty"
    /\ uploaded = "unset"
    /\ effects = <<>>
    /\ returned = Running
    /\ IdleSampler /\ IdleEngine /\ IdleLambda

Next ==
    \/ GetAllInstances
    \/ AnalyzeInstance
    \/ WriteReport
    \/ UploadReport
    \/ LogRecords
    \/ Summarize
    \/ WriteSummary
    \/ UploadSummary
    \/ LogSummary
    \/ Return

Spec == Init /\ [][Next]_vars

InitLambda ==
    /\ key \in Keys
    /\ lpc = "download"
    /\ summary_filename = <<>>
    /\ bucketPuts = {}
    /\ response = NoResponse
    /\ IdleSampler /\ IdleEngine /\ IdleRun

NextLambda == Download \/ Extract \/ LambdaSummarize \/ PutObject

SpecLambda == InitLambda /\ [][NextLambda]_vars

(***************************************************************************)
(* Properties.                                                             *)
(***************************************************************************)
Range(s) == {s[i] : i \in 1..Len(s)}

HasData(outcome) == ~outcome.error /\ outcome.Datapoints # <<>>

\* the positions, in order, of the instances whose query answered with data
RECURSIVE IdsWithData(_)
IdsWithData(n) ==
    IF n = 0 THEN <<>>
    ELSE IdsWithData(n - 1) \o (IF HasData(telemetry[n]) THEN <<n>> ELSE <<>>)

RowIds == [i \in 1..Len(results) |-> results[i].InstanceId]

\* C1: whatever each telemetry query does (raises, answers without
\* datapoints, answers with datapoints), the loop of analyze_instances does not
\* abort, and the rows are exactly the instances whose query answered with at
\* least one datapoint, one row each, in the order of the inventory.
C1_RowsAreInstancesWithData ==
    /\ RowIds = IdsWithData(Len(telemetry))
    /\ \A i \in 1..Len(results) :
          results[i].InstanceType = instances[results[i].InstanceId].InstanceType
    /\ pc = "loop" => returned = Running
    /\ (returned.how = "raised" /\ returned.at # "get_all_instances")
          => Len(telemetry) = Len(instances)

\* the scenario of the report assembler: the first query raises, the second
\* answers without data, the third answers with data, and the run goes on to
\* write a report of one row
C1_Witness ==
    /\ Len(instances) = 3
    /\ Len(telemetry) = 3
    /\ telemetry[1].error
    /\ ~telemetry[2].error /\ telemetry[2].Datapoints = <<>>
    /\ HasData(telemetry[3])
    /\ RowIds = <<3>>
    /\ "to_csv" \in Range(effects)

\* C2: once the inventory is fetched, no failure of the telemetry source, the
\* pricing catalog, the object store, the record log or the completion call
\* makes analyze_instances raise.
C2_OnlyInventoryFailureIsFatal ==
    returned.how = "raised" => returned.at = "get_all_instances"

RowMax(row) == SeqMax(Maxima(telemetry[row.InstanceId].Datapoints))

\* C7: a row carries the "No recommendations" marker exactly when no advisory
\* applied to its instance (max >= 40), and no row has an empty
\* recommendation text.
C7_ExplicitNoRecommendation ==
    \A i \in 1..Len(results) :
        /\ results[i].Recommendations # <<>>
        /\ (results[i].Recommendations = <<NoRecommendations>>) <=> (RowMax(results[i]) >= Pct(40))
        /\ NoRecommendations \in Range(results[i].Recommendations)
              => results[i].Recommendations = <<NoRecommendations>>

\* a report with a row that carries the marker and a row that carries advisories
C7_Witness ==
    /\ pc = "done"
    /\ returned.how = "record"
    /\ \E i, j \in 1..Len(results) :
          /\ results[i].Recommendations = <<NoRecommendations>>
          /\ RowMax(results[i]) = Pct(40)
          /\ results[j].Recommendations # <<NoRecommendations>>

\* C8: with no row, analyze_instances returns None and performs no export
\* step (no report file, no upload, no log record, no completion call); with
\* at least one row it returns a result record, after the report is written.
C8_EmptyReportSkipsExports ==
    (pc = "done" /\ returned.at # "get_all_instances") =>
        IF results = <<>>
        THEN returned.how = "None" /\ effects = <<>>
        ELSE returned.how = "record" /\ "to_csv" \in Range(effects)

Recs == engOut.recommendations

Kinds == [i \in 1..Len(Recs) |-> Recs[i].kind]

IsSuggest(rec) == rec.kind = "Suggest"

SuggestedTypes ==
    LET sug == SelectSeq(Recs, IsSuggest) IN [i \in 1..Len(sug) |-> sug[i].new_type]

\* C3: the "Underutilized" advisory is emitted, and the downgrades are
\* evaluated, if and only if max < 40; at max = 40 it is not emitted.
C3_Rule1IffBelow40 ==
    engOut.called =>
        /\ ("Underutilized" \in Range(Kinds)) <=> (engMax < Pct(40))
        /\ (engOut.lookups # <<>>) <=> (engMax < Pct(40))
        /\ "Suggest" \in Range(Kinds) => engMax < Pct(40)

\* the boundary: max = 40 and nothing was emitted or looked up
C3_Witness ==
    /\ engOut.called
    /\ engMax = Pct(40)
    /\ Recs = <<>>
    /\ engOut.lookups = <<>>

\* C4: the "Consider stopping" advisory is emitted if and only if max < 10,
\* and then the "Underutilized" advisory is in the same sequence, before it.
C4_Rule2IffBelow10 ==
    engOut.called =>
        /\ ("ConsiderStopping" \in Range(Kinds)) <=> (engMax < Pct(10))
        /\ \A j \in 1..Len(Recs) :
              Kinds[j] = "ConsiderStopping" =>
                  \E i \in 1..(j - 1) : Kinds[i] = "Underutilized"

\* max = 5: both advisories, the idle one last
C4_Witness ==
    /\ engOut.called
    /\ engMax = Pct(5)
    /\ Kinds[1] = "Underutilized"
    /\ Kinds[Len(Kinds)] = "ConsiderStopping"

\* the family of a type: what precedes its first '.'
IsFamilyOf(f, t) ==
    /\ "." \notin Range(f)
    /\ t = f \/ StartsWith(t, f \o <<".">>)

FamilyOf(t) == CHOOSE f \in {SubSeq(t, 1, n) : n \in 0..Len(t)} : IsFamilyOf(f, t)

\* family.large, family.medium, family.small, without the current type
CandidatesOf(t) ==
    LET all == <<FamilyOf(t) \o <<".">> \o Large,
                 FamilyOf(t) \o <<".">> \o Medium,
                 FamilyOf(t) \o <<".">> \o Small>>
        Other(c) == c # t
    IN  SelectSeq(all, Other)

CurrentType == engInstance.InstanceType

PriceOf(t) == get_instance_type_info(engCatalog[t])

\* C5: when max < 40, a downgrade to a candidate is suggested exactly when the
\* current price and the candidate's price are both known and the candidate's
\* is strictly lower; a suggestion carries savings = current price - candidate
\* price > 0; with the current price unknown nothing is suggested and the
\* "Underutilized" advisory still appears.
C5_SuggestionIffCheaper ==
    (engOut.called /\ engMax < Pct(40)) =>
        /\ \A c \in Range(CandidatesOf(CurrentType)) :
              (c \in Range(SuggestedTypes)) <=>
                  /\ PriceOf(CurrentType) # None
                  /\ PriceOf(c) # None
                  /\ PriceOf(c)[1] < PriceOf(CurrentType)[1]
        /\ \A i \in 1..Len(Recs) :
              IsSuggest(Recs[i]) =>
                  /\ Recs[i].value = PriceOf(CurrentType)[1] - PriceOf(Recs[i].new_type)[1]
                  /\ Recs[i].value > 0
        /\ PriceOf(CurrentType) = None =>
              SuggestedTypes = <<>> /\ "Underutilized" \in Range(Kinds)

\* C6: every suggested type is the current type's family followed by large,
\* medium or small, is never the current type, and the suggestions come in
\* that order; the candidates whose prices are looked up are exactly these.
C6_CandidatesOfSameFamily ==
    engOut.called =>
        LET Suggested(c) == c \in Range(SuggestedTypes)
        IN  /\ SuggestedTypes = SelectSeq(CandidatesOf(CurrentType), Suggested)
            /\ CurrentType \notin Range(SuggestedTypes)
            /\ engOut.lookups =
                  IF engMax < Pct(40)
                  THEN <<CurrentType>> \o CandidatesOf(CurrentType)
                  ELSE <<>>

\* m5.large: itself skipped, m5.medium and m5.small suggested, in that order
C6_Witness ==
    /\ engOut.called
    /\ CurrentType = M5Large
    /\ SuggestedTypes = <<<<"m", "5", ".">> \o Medium, M5Small>>
    /\ Len(engOut.lookups) = 3

\* C9: from a non-empty list of datapoints, each with Maximum >= Average, the
\* sampler returns max >= avg; from an empty list it returns (None, None).
C9_MaxAtLeastAvg ==
    summary.called =>
        IF datapoints = <<>>
        THEN summary.avg_util = None /\ summary.max_util = None
        ELSE summary.max_util[1] >= summary.avg_util[1]

Accepted(k) == EndsWith(Lower(k), DotPptx) \/ EndsWith(Lower(k), DotPdf)

\* C10: for a key ending in .pptx or .pdf, whatever its case, the key the
\* summary is written to differs from the key of the uploaded object; for any
\* other key the handler answers 400 and writes nothing.
C10_SummaryNeverOverwritesInput ==
    /\ key \notin bucketPuts
    /\ ~Accepted(key) => bucketPuts = {} /\ response.statusCode \in {0, 400}

====
